---- MODULE Spec2Model ----
(***************************************************************************)
(* sqrt_newton.c: square root by Newton-Raphson (Heron) on IEEE-754        *)
(* binary64, using only + - * / and comparisons.                           *)
(*                                                                         *)
(* A double is modelled bit-exactly: a finite value is s * m * 2^e with m  *)
(* an integer below 2^53 held as a sequence of 15-bit limbs (TLC integers  *)
(* are 32 bits wide), and every arithmetic operation computes the exact    *)
(* result and rounds it to nearest, ties to even, with gradual underflow,  *)
(* overflow to infinity, signed zeros and NaN.                             *)
(***************************************************************************)
EXTENDS Integers, Sequences, FiniteSets

(***************************************************************************)
(* Natural numbers of arbitrary size: little-endian sequences of limbs in  *)
(* 0 .. Base-1 without leading zero limbs; <<>> is zero.                   *)
(***************************************************************************)
Base == 2^15

Limb(n, j) == IF j >= 1 /\ j <= Len(n) THEN n[j] ELSE 0

RECURSIVE Trim(_)
Trim(n) == IF n = <<>> THEN n
           ELSE IF n[Len(n)] = 0 THEN Trim(SubSeq(n, 1, Len(n) - 1)) ELSE n

RECURSIVE BigOf(_)
BigOf(k) == IF k = 0 THEN <<>> ELSE <<k % Base>> \o BigOf(k \div Base)

RECURSIVE AddC(_, _, _, _)
AddC(n, d, j, c) ==
    IF j > Len(n) /\ j > Len(d) THEN (IF c = 0 THEN <<>> ELSE <<c>>)
    ELSE LET t == Limb(n, j) + Limb(d, j) + c
         IN <<t % Base>> \o AddC(n, d, j + 1, t \div Base)

BAdd(n, d) == AddC(n, d, 1, 0)

RECURSIVE SubC(_, _, _, _)
SubC(n, d, j, c) ==
    IF j > Len(n) THEN <<>>
    ELSE LET t == Limb(n, j) - Limb(d, j) - c
         IN IF t < 0 THEN <<t + Base>> \o SubC(n, d, j + 1, 1)
            ELSE <<t>> \o SubC(n, d, j + 1, 0)

\* n - d for n >= d
BSub(n, d) == Trim(SubC(n, d, 1, 0))

RECURSIVE CmpFrom(_, _, _)
CmpFrom(n, d, j) ==
    IF j = 0 THEN 0
    ELSE IF n[j] < d[j] THEN -1
    ELSE IF n[j] > d[j] THEN 1
    ELSE CmpFrom(n, d, j - 1)

\* -1, 0, 1 as n < d, n = d, n > d
BCmp(n, d) ==
    IF Len(n) < Len(d) THEN -1
    ELSE IF Len(n) > Len(d) THEN 1
    ELSE CmpFrom(n, d, Len(n))

RECURSIVE MulLimbC(_, _, _, _)
MulLimbC(n, d, j, c) ==
    IF j > Len(n) THEN (IF c = 0 THEN <<>> ELSE <<c>>)
    ELSE LET t == n[j] * d + c
         IN <<t % Base>> \o MulLimbC(n, d, j + 1, t \div Base)

Zeros(k) == [j \in 1..k |-> 0]

RECURSIVE MulFrom(_, _, _)
MulFrom(n, d, j) ==
    IF j > Len(d) THEN <<>>
    ELSE BAdd(Zeros(j - 1) \o MulLimbC(n, d[j], 1, 0), MulFrom(n, d, j + 1))

BMul(n, d) == Trim(MulFrom(n, d, 1))

\* n * 2^k
BShl(n, k) ==
    IF n = <<>> THEN n
    ELSE LET q == k \div 15
             r == k % 15
             lo == 2^(15 - r)
             hi == 2^r
         IN Trim(Zeros(q) \o [j \in 1..(Len(n) + 1) |->
                 (Limb(n, j) % lo) * hi + (Limb(n, j - 1) \div lo)])

\* floor(n / 2^k)
BShr(n, k) ==
    LET q == k \div 15
        r == k % 15
        lo == 2^r
        hi == 2^(15 - r)
    IN IF q >= Len(n) THEN <<>>
       ELSE Trim([j \in 1..(Len(n) - q) |->
                 (n[j + q] \div lo) + (Limb(n, j + q + 1) % lo) * hi])

RECURSIVE IntBits(_)
IntBits(k) == IF k = 0 THEN 0 ELSE 1 + IntBits(k \div 2)

\* number of significant bits of n
BitLen(n) == IF n = <<>> THEN 0 ELSE 15 * (Len(n) - 1) + IntBits(n[Len(n)])

BOdd(n) == n # <<>> /\ n[1] % 2 = 1

BOne == <<1>>

\* one quotient limb: the next 15 quotient bits of r / d, for r < d
RECURSIVE DivDigit(_, _, _, _)
DivDigit(r, d, k, q) ==
    IF k = 0 THEN <<q, r>>
    ELSE LET r2 == BAdd(r, r)
         IN IF BCmp(r2, d) >= 0 THEN DivDigit(BSub(r2, d), d, k - 1, 2 * q + 1)
            ELSE DivDigit(r2, d, k - 1, 2 * q)

RECURSIVE DivLimbs(_, _, _)
DivLimbs(r, d, k) ==
    IF k = 0 THEN <<<<>>, r>>
    ELSE LET dg == DivDigit(r, d, 15, 0)
             rest == DivLimbs(dg[2], d, k - 1)
         IN <<rest[1] \o <<dg[1]>>, rest[2]>>

\* quotient and remainder of n * 2^(15 * k) by d, for n < 2 * d
BDivLimbs(n, d, k) ==
    LET top == BCmp(n, d) >= 0
        qr == DivLimbs(IF top THEN BSub(n, d) ELSE n, d, k)
    IN <<Trim(qr[1] \o <<IF top THEN 1 ELSE 0>>), qr[2]>>

\* -1, 0, 1 as n * 2^en <, =, > d * 2^ed  (n, d > 0)
ScaledCmp(n, en, d, ed) ==
    LET tn == BitLen(n) + en
        td == BitLen(d) + ed
    IN IF tn < td THEN -1
       ELSE IF tn > td THEN 1
       ELSE IF en >= ed THEN BCmp(BShl(n, en - ed), d)
       ELSE BCmp(n, BShl(d, ed - en))

(***************************************************************************)
(* binary64 (<float.h>)                                                    *)
(***************************************************************************)
DBL_MANT_DIG == 53
DBL_MAX_EXP == 1024
DBL_MIN_EXP == -1021

\* exponent of the unit in the last place of the subnormals, and of the
\* largest binade
EMin == DBL_MIN_EXP - DBL_MANT_DIG
EMax == DBL_MAX_EXP - DBL_MANT_DIG

NaN == [k |-> "nan", s |-> 0, m |-> <<>>, e |-> 0]
Inf(s) == [k |-> "inf", s |-> s, m |-> <<>>, e |-> 0]
Zero(s) == [k |-> "fin", s |-> s, m |-> <<>>, e |-> EMin]

IsZero(v) == v.k = "fin" /\ v.m = <<>>

Pack(s, m, e) ==
    IF e > EMax THEN Inf(s) ELSE [k |-> "fin", s |-> s, m |-> m, e |-> e]

\* the double nearest to (-1)^s * (m + f) * 2^e, where 0 <= f < 1 and
\* sticky says f > 0; ties to even
Round(s, m, e, sticky) ==
    IF m = <<>> THEN Zero(s)
    ELSE LET len == BitLen(m)
             e1 == IF e + len - DBL_MANT_DIG >= EMin
                   THEN e + len - DBL_MANT_DIG ELSE EMin
             sh == e1 - e
         IN IF sh <= 0 THEN Pack(s, BShl(m, 0 - sh), e1)
            ELSE IF sh > len THEN Zero(s)
            ELSE LET q == BShr(m, sh)
                     rem == BSub(m, BShl(q, sh))
                     c == BCmp(rem, BShl(BOne, sh - 1))
                     up == c > 0 \/ (c = 0 /\ (sticky \/ BOdd(q)))
                     m1 == IF up THEN BAdd(q, BOne) ELSE q
                 IN IF BitLen(m1) > DBL_MANT_DIG
                    THEN Pack(s, BShr(m1, 1), e1 + 1)
                    ELSE Pack(s, m1, e1)

FromInt(k) == Round(0, BigOf(k), 0, FALSE)

FNeg(v) == IF v.k = "nan" THEN v ELSE [v EXCEPT !.s = 1 - v.s]

\* hi.e >= lo.e, both finite and non-zero
AddAligned(hi, lo) ==
    LET d == hi.e - lo.e
        far == d > 2 * DBL_MANT_DIG + 14
        mh == IF far THEN BShl(hi.m, 2 * DBL_MANT_DIG + 14) ELSE BShl(hi.m, d)
        e == IF far THEN hi.e - (2 * DBL_MANT_DIG + 14) ELSE lo.e
    IN IF hi.s = lo.s
       THEN IF far THEN Round(hi.s, mh, e, TRUE)
            ELSE Round(hi.s, BAdd(mh, lo.m), e, FALSE)
       ELSE IF far THEN Round(hi.s, BSub(mh, BOne), e, TRUE)
       ELSE LET c == BCmp(mh, lo.m)
            IN IF c = 0 THEN Zero(0)
               ELSE IF c > 0 THEN Round(hi.s, BSub(mh, lo.m), e, FALSE)
               ELSE Round(lo.s, BSub(lo.m, mh), e, FALSE)

FAdd(v, w) ==
    IF v.k = "nan" \/ w.k = "nan" THEN NaN
    ELSE IF v.k = "inf"
         THEN (IF w.k = "inf" /\ w.s # v.s THEN NaN ELSE v)
    ELSE IF w.k = "inf" THEN w
    ELSE IF IsZero(v) /\ IsZero(w) THEN Zero(IF v.s = w.s THEN v.s ELSE 0)
    ELSE IF IsZero(v) THEN w
    ELSE IF IsZero(w) THEN v
    ELSE IF v.e >= w.e THEN AddAligned(v, w)
    ELSE AddAligned(w, v)

FSub(v, w) == FAdd(v, FNeg(w))

FMul(v, w) ==
    LET s == (v.s + w.s) % 2
    IN IF v.k = "nan" \/ w.k = "nan" THEN NaN
       ELSE IF v.k = "inf" \/ w.k = "inf"
            THEN (IF IsZero(v) \/ IsZero(w) THEN NaN ELSE Inf(s))
       ELSE Round(s, BMul(v.m, w.m), v.e + w.e, FALSE)

FDiv(v, w) ==
    LET s == (v.s + w.s) % 2
    IN IF v.k = "nan" \/ w.k = "nan" THEN NaN
       ELSE IF v.k = "inf" THEN (IF w.k = "inf" THEN NaN ELSE Inf(s))
       ELSE IF w.k = "inf" THEN Zero(s)
       ELSE IF IsZero(w) THEN (IF IsZero(v) THEN NaN ELSE Inf(s))
       ELSE IF IsZero(v) THEN Zero(s)
       ELSE LET nv == DBL_MANT_DIG - BitLen(v.m)
                nw == DBL_MANT_DIG - BitLen(w.m)
                qr == BDivLimbs(BShl(v.m, nv), BShl(w.m, nw), 4)
            IN Round(s, qr[1], (v.e - nv) - (w.e - nw) - 60, qr[2] # <<>>)

\* -1, 0, 1 for ordered operands (neither is NaN)
FCmp(v, w) ==
    LET sv == IF IsZero(v) THEN 0 ELSE 1 - 2 * v.s
        sw == IF IsZero(w) THEN 0 ELSE 1 - 2 * w.s
        mag == IF v.k = "inf" THEN (IF w.k = "inf" THEN 0 ELSE 1)
               ELSE IF w.k = "inf" THEN -1
               ELSE IF v.e < w.e THEN -1
               ELSE IF v.e > w.e THEN 1
               ELSE BCmp(v.m, w.m)
    IN IF sv < sw THEN -1
       ELSE IF sv > sw THEN 1
       ELSE sv * mag

Ordered(v, w) == v.k # "nan" /\ w.k # "nan"
FLt(v, w) == Ordered(v, w) /\ FCmp(v, w) < 0
FLe(v, w) == Ordered(v, w) /\ FCmp(v, w) <= 0
FGe(v, w) == Ordered(v, w) /\ FCmp(v, w) >= 0
FEq(v, w) == Ordered(v, w) /\ FCmp(v, w) = 0
FNe(v, w) == ~FEq(v, w)

\* the double written as the quotient of two integers that are doubles
\* themselves (a decimal literal such as 1e-12 = 1 / 10^12)
FromBig(n) == Round(0, n, 0, FALSE)
Ratio(n, d) == FDiv(FromBig(n), FromBig(d))

E12 == BMul(BigOf(10^6), BigOf(10^6))

\* the literals 0.0, 0.5 and 1.0
PosZero == Zero(0)
Half == Ratio(BOne, BigOf(2))
One == FromInt(1)

(***************************************************************************)
(* The driver's fixed parameters and input vector (main)                   *)
(***************************************************************************)
DriverEps == Ratio(BOne, E12)
DriverMaxIters == 100
DriverTests ==
    { PosZero, FromInt(2), FromInt(9), Ratio(BOne, BigOf(4)),
      Ratio(BOne, E12), FromBig(E12), FNeg(FromInt(4)) }

(***************************************************************************)
(* The helpers                                                             *)
(***************************************************************************)
abs_double(v) == IF FLt(v, PosZero) THEN FSub(PosZero, v) ELSE v

is_nan(v) == FNe(v, v)

(***************************************************************************)
(* sqrt_newton(a, eps, max_iters), one loop iteration per step             *)
(***************************************************************************)
\* a local that is not in scope yet
None == [k |-> "none", s |-> 0, m |-> <<>>, e |-> 0]

\* the slip "return z;"
NaNResult_ReturnsZ == PosZero

\* double z = 0.0; return z / z;
NaNResult == LET z == PosZero IN FDiv(z, z)

\* if (a < 0.0)
IsNegative(v) == FLt(v, PosZero)

\* the slip of leaving out the a == 0 case
IsZeroInput_Dropped(v) == FALSE

\* if (a == 0.0)
IsZeroInput(v) == FEq(v, PosZero)

\* the slip "(a >= 1.0) ? 1.0 : a"
InitialGuess_Swapped(v) == IF FGe(v, One) THEN One ELSE v

\* double x = (a >= 1.0) ? a : 1.0;
InitialGuess(v) == IF FGe(v, One) THEN v ELSE One

\* the slips "x + (a / x)" and "0.5 * (x - (a / x))"
x_next_NoHalf(v, w) == FAdd(v, FDiv(w, v))
x_next_Minus(v, w) == FMul(Half, FSub(v, FDiv(w, v)))

\* double x_next = 0.5 * (x + (a / x));
x_next(v, w) == FMul(Half, FAdd(v, FDiv(w, v)))

\* double diff = abs_double(x_next - x);
diff(vn, v) == abs_double(FSub(vn, v))

\* double tol = eps * (1.0 + abs_double(x_next));
tol(ep, vn) == FMul(ep, FAdd(One, abs_double(vn)))

\* the slip "diff < tol"
StopTest_Strict(d, t) == FLt(d, t)

\* if (diff <= tol)
StopTest(d, t) == FLe(d, t)

\* the slips "i <= max_iters" and "i < max_iters - 1"
LoopTest_Inclusive(j, n) == j <= n
LoopTest_OneShort(j, n) == j < n - 1

\* for (...; i < max_iters; ...)
LoopTest(j, n) == j < n

VARIABLES
    a, eps, max_iters,  \* the arguments
    pc,                 \* the line control is at: "L59" entry, "L74" loop
                        \* head, and the returns "L62", "L65", "L86", "L93"
    x, i,               \* the locals
    ret,                \* the value returned
    prev,               \* history: the estimate x replaced by the last step
    ndiv                \* history: how many times a / x was evaluated

vars == <<a, eps, max_iters, pc, x, i, ret, prev, ndiv>>

(***************************************************************************)
(* Inputs                                                                  *)
(***************************************************************************)
MaxSmallInt == 10
MaxItersSmall == 2
SweepSteps == 7

DblMax == Pack(0, BSub(BShl(BOne, DBL_MANT_DIG), BOne), EMax)
DblMin == Pack(0, BShl(BOne, DBL_MANT_DIG - 1), EMin)
DblTrueMin == Pack(0, BOne, EMin)

SmallInts == { FromInt(n) : n \in 1..MaxSmallInt }

\* 3 * 2^(128 j): from the smallest to the largest binades
Sweep ==
    { v \in { Round(0, BigOf(3), 128 * j, FALSE) : j \in (0 - SweepSteps)..SweepSteps } :
        v.k = "fin" /\ ~IsZero(v) }

Positives == SmallInts \cup Sweep \cup {DblMax, DblMin, DblTrueMin}

AValues ==
    DriverTests \cup Positives \cup { FNeg(v) : v \in Positives } \cup {Zero(1)}

EpsValues == { DriverEps, Half, DblTrueMin }

MaxItersValues == ((0 - 1)..MaxItersSmall) \cup {DriverMaxIters}

Init ==
    /\ a \in AValues
    /\ eps \in EpsValues
    /\ max_iters \in MaxItersValues
    /\ pc = "L59"
    /\ x = None
    /\ i = 0
    /\ ret = None
    /\ prev = None
    /\ ndiv = 0

\* lines 59-71: the dispatch on a and the initial guess
Dispatch ==
    /\ pc = "L59"
    /\ IF IsNegative(a)
       THEN /\ pc' = "L62"
            /\ ret' = NaNResult
            /\ x' = x
       ELSE IF IsZeroInput(a)
       THEN /\ pc' = "L65"
            /\ ret' = PosZero
            /\ x' = x
       ELSE /\ pc' = "L74"
            /\ x' = InitialGuess(a)
            /\ ret' = ret
    /\ UNCHANGED <<a, eps, max_iters, i, prev, ndiv>>

\* lines 74-90: one iteration of the loop body
Iterate ==
    /\ pc = "L74"
    /\ LoopTest(i, max_iters)
    /\ LET xn == x_next(x, a)
       IN IF StopTest(diff(xn, x), tol(eps, xn))
          THEN /\ pc' = "L86"
               /\ ret' = xn
               /\ UNCHANGED <<x, i, prev>>
          ELSE /\ x' = xn
               /\ prev' = x
               /\ i' = i + 1
               /\ UNCHANGED <<pc, ret>>
    /\ ndiv' = ndiv + 1
    /\ UNCHANGED <<a, eps, max_iters>>

\* lines 74, 93: the loop ends on its cap
LoopExit ==
    /\ pc = "L74"
    /\ ~LoopTest(i, max_iters)
    /\ pc' = "L93"
    /\ ret' = x
    /\ UNCHANGED <<a, eps, max_iters, x, i, prev, ndiv>>

Next == Dispatch \/ Iterate \/ LoopExit

Spec == Init /\ [][Next]_vars

Returned == pc \in {"L62", "L65", "L86", "L93"}

IsPositive(v) == v.k = "fin" /\ v.s = 0 /\ ~IsZero(v)

(***************************************************************************)
(* Exact (real-number) comparisons used to state the properties            *)
(***************************************************************************)
IsNegativeValue(v) == v.k = "fin" /\ v.s = 1 /\ ~IsZero(v)

\* v >= 1 in the reals, for positive finite v
AtLeastOne(v) == ScaledCmp(v.m, v.e, BOne, 0) >= 0

\* v * v >= w in the reals, for positive finite v and w
SqGe(v, w) == ScaledCmp(BMul(v.m, v.m), 2 * v.e, w.m, w.e) >= 0

\* succ(v)^2 > w in the reals, succ(v) the double next above v: v is not
\* below the largest double that does not exceed sqrt(w)
SuccSqGt(v, w) ==
    LET m1 == BAdd(v.m, BOne)
    IN ScaledCmp(BMul(m1, m1), 2 * v.e, w.m, w.e) > 0

\* |r * r - v| <= n * ulp(v) in the reals, ulp(v) = 2^v.e the spacing of
\* the doubles at v
WithinUlps(r, v, n) ==
    LET e0 == IF 2 * r.e < v.e THEN 2 * r.e ELSE v.e
        rr == BShl(BMul(r.m, r.m), 2 * r.e - e0)
        vv == BShl(v.m, v.e - e0)
        d == IF BCmp(rr, vv) >= 0 THEN BSub(rr, vv) ELSE BSub(vv, rr)
    IN BCmp(d, BShl(BigOf(n), v.e - e0)) <= 0

Guess(v) == IF AtLeastOne(v) THEN v ELSE One

CapSteps == IF max_iters > 0 THEN max_iters ELSE 0

(***************************************************************************)
(* The properties                                                          *)
(***************************************************************************)

\* C1: for every negative a, whatever eps and max_iters, sqrt_newton returns
\* a NaN (x != x), produced as 0/0, without entering the loop and without
\* evaluating a / x.
C1_NegativeGivesNaN ==
    IsNegativeValue(a) =>
        /\ pc \in {"L59", "L62"}
        /\ ndiv = 0 /\ i = 0 /\ x = None
        /\ pc = "L62" => (ret.k = "nan" /\ is_nan(ret))

C1_Witness ==
    /\ pc = "L62" /\ a = FNeg(FromInt(4)) /\ is_nan(ret)
    /\ max_iters = DriverMaxIters

\* C2: sqrt_newton(0, eps, n) returns exactly +0.0 whatever eps and n: the
\* a == 0 dispatch returns before the initial guess and before any step.
C2_ZeroGivesZero ==
    IsZero(a) =>
        /\ pc \in {"L59", "L65"}
        /\ ndiv = 0 /\ i = 0 /\ x = None
        /\ pc = "L65" => ret = PosZero

C2_Witness ==
    /\ pc = "L65" /\ a = PosZero /\ ret = PosZero
    /\ eps = DriverEps /\ max_iters = DriverMaxIters

\* C3: for all positive a and eps = 1e-12 the stop test triggers within 60
\* iterations, so with max_iters = 100 the loop never ends on its cap.
C3_StopsWithin60 ==
    (IsPositive(a) /\ eps = DriverEps) =>
        /\ ndiv <= 60
        /\ max_iters = DriverMaxIters => pc # "L93"

\* C4 as claimed: for positive a, every iterate x_n with n >= 1 satisfies
\* x_n * x_n >= a, and x_(n+1) <= x_n.
C4_MonotoneAboveRoot ==
    (IsPositive(a) /\ i >= 1) =>
        /\ SqGe(x, a)
        /\ i >= 2 => FLe(x, prev)
        /\ pc = "L86" => FLe(ret, x)

\* C4 as amended: for positive a, every iterate x_n with n >= 1 satisfies
\* x_(n+1) <= x_n, and x_n is not below the largest double that does not
\* exceed sqrt(a), that is succ(x_n)^2 > a (rounding can put x_n below
\* sqrt(a) by less than one unit in the last place).
C4_MonotoneWithinUlp ==
    (IsPositive(a) /\ i >= 1) =>
        /\ SuccSqGt(x, a)
        /\ i >= 2 => FLe(x, prev)
        /\ pc = "L86" => FLe(ret, x)

C4_Witness ==
    /\ pc = "L74" /\ i >= 2 /\ IsPositive(a)
    /\ ~SqGe(x, a) /\ FLe(x, prev)

\* C5: in every reachable state and for every input, the divisor x of a / x
\* is a non-zero, strictly positive double.
C5_DivisorPositive ==
    /\ pc = "L74" => x # None
    /\ x # None => IsPositive(x)

C5_Witness ==
    /\ pc = "L74" /\ ndiv >= 1 /\ i < max_iters /\ IsPositive(x)
    /\ a = DblTrueMin

\* C6: for every positive a, from the subnormals to the largest finite
\* doubles, with eps = 1e-12 and max_iters = 100 the value r returned
\* satisfies |r*r - a| <= 4 ulp(a) and r >= 0.
C6_ResultAccurate ==
    (IsPositive(a) /\ eps = DriverEps /\ max_iters = DriverMaxIters /\ Returned) =>
        /\ FGe(ret, PosZero)
        /\ WithinUlps(ret, a, 4)

\* C7: for positive a, sqrt_newton returns the newly computed x_(n+1) (not
\* x_n) at the first step n < max_iters at which diff <= tol, equality
\* included; at every earlier step the test was false and x became x_(n+1).
C7_StopRule ==
    IsPositive(a) =>
        /\ pc = "L86" =>
              /\ ret = x_next(x, a)
              /\ FLe(diff(ret, x), tol(eps, ret))
              /\ ndiv = i + 1 /\ i < max_iters
        /\ (pc \in {"L74", "L86", "L93"} /\ i >= 1) =>
              /\ x = x_next(prev, a)
              /\ ~FLe(diff(x, prev), tol(eps, x))
        /\ pc \in {"L74", "L93"} => ndiv = i

C7_Witness ==
    /\ pc = "L86" /\ IsPositive(a)
    /\ FEq(diff(ret, x), tol(eps, ret))
    /\ ~FEq(ret, x)

\* C8: for positive a, when the loop completes max_iters iterations without
\* the stop test triggering, the function returns the last computed
\* estimate, having performed exactly max_iters steps and no more.
C8_CapReturnsLast ==
    IsPositive(a) =>
        /\ ndiv <= CapSteps
        /\ pc = "L93" =>
              /\ ret = x
              /\ ndiv = CapSteps /\ i = CapSteps
              /\ max_iters >= 1 => x = x_next(prev, a)

C8_Witness ==
    /\ pc = "L93" /\ IsPositive(a) /\ max_iters = DriverMaxIters
    /\ ndiv = DriverMaxIters /\ ret = x

\* C9: for every positive a the initial guess is a when a >= 1 and 1
\* otherwise; it is positive and not below sqrt(a): x0 * x0 >= a.
C9_InitialGuess ==
    (IsPositive(a) /\ pc = "L74" /\ i = 0) =>
        /\ x = Guess(a)
        /\ IsPositive(x)
        /\ SqGe(x, a)

C9_Witness ==
    /\ pc = "L74" /\ i = 0 /\ a = DblMax /\ x = DblMax

\* C10: for positive a and max_iters <= 0, no step is performed (no
\* division, no stop test) and the initial guess is returned unchanged,
\* whatever eps.
C10_NoIterations ==
    (IsPositive(a) /\ max_iters <= 0) =>
        /\ ndiv = 0 /\ i = 0
        /\ pc \in {"L59", "L74", "L93"}
        /\ pc = "L93" => ret = Guess(a)

C10_Witness ==
    /\ pc = "L93" /\ max_iters = 0 /\ ndiv = 0
    /\ a = Ratio(BOne, BigOf(4)) /\ ret = One
====
